---- MODULE Spec2Model ----
(***************************************************************************)
(* A model of fetch_cot.py: the matching of report rows to instruments,    *)
(* the date ordering, deduplication and 52-week windowing of matched rows, *)
(* the COT index and week-over-week change, the per-instrument summary and *)
(* the control flow of fetch_cot_data.                                     *)
(*                                                                         *)
(* A Python str is a sequence of one-character strings, a csv row is a     *)
(* function from column names to such sequences (a column may be absent    *)
(* from the domain), a datetime at midnight is a record [year, month, day].*)
(***************************************************************************)
EXTENDS Integers, Sequences, FiniteSets, TLC

----------------------------------------------------------------------------
(* Strings *)

DigitChars == <<"0", "1", "2", "3", "4", "5", "6", "7", "8", "9">>

IsDigit(c) == \E n \in 1..10 : DigitChars[n] = c

DigitVal(c) == (CHOOSE n \in 1..10 : DigitChars[n] = c) - 1

AllDigits(s) == \A i \in 1..Len(s) : IsDigit(s[i])

RECURSIVE ToNat(_)
\* the value of a sequence of decimal digits
ToNat(s) ==
    IF s = <<>> THEN 0
    ELSE 10 * ToNat(SubSeq(s, 1, Len(s) - 1)) + DigitVal(s[Len(s)])

RECURSIVE Pad(_, _)
\* n written in decimal, zero-padded to at least w characters (n >= 0)
Pad(n, w) ==
    IF n < 10 /\ w <= 1 THEN <<DigitChars[n + 1]>>
    ELSE Pad(n \div 10, w - 1) \o <<DigitChars[(n % 10) + 1]>>

IsSpace(c) == c = " "

\* str.strip()
Strip(s) ==
    LET keep == {i \in 1..Len(s) : ~IsSpace(s[i])}
    IN  IF keep = {} THEN <<>>
        ELSE SubSeq(s, CHOOSE i \in keep : \A j \in keep : i <= j,
                       CHOOSE i \in keep : \A j \in keep : i >= j)

Lower == <<"a", "b", "c", "d", "e", "f", "g", "h", "i", "j", "k", "l", "m",
           "n", "o", "p", "q", "r", "s", "t", "u", "v", "w", "x", "y", "z">>

Upper == <<"A", "B", "C", "D", "E", "F", "G", "H", "I", "J", "K", "L", "M",
           "N", "O", "P", "Q", "R", "S", "T", "U", "V", "W", "X", "Y", "Z">>

UpperChar(c) ==
    IF \E n \in 1..26 : Lower[n] = c
    THEN Upper[CHOOSE n \in 1..26 : Lower[n] = c]
    ELSE c

\* str.upper()
ToUpper(s) == [i \in 1..Len(s) |-> UpperChar(s[i])]

\* needle in hay
Contains(hay, needle) ==
    \E i \in 0..(Len(hay) - Len(needle)) :
        SubSeq(hay, i + 1, i + Len(needle)) = needle

\* s[:n]
Take(s, n) == SubSeq(s, 1, IF Len(s) < n THEN Len(s) ELSE n)

\* F applied to the value of v: v is evaluated once, as an assignment to a
\* local variable evaluates its right-hand side once
Bind(v, F(_)) == CHOOSE y \in {F(x) : x \in {v}} : TRUE

\* the dict with the given <<key, value>> items
Dict(items) ==
    [k \in {items[i][1] : i \in 1..Len(items)} |->
        items[CHOOSE i \in 1..Len(items) : items[i][1] = k][2]]

\* row.get(key, default)
Get(row, key, default) == IF key \in DOMAIN row THEN row[key] ELSE default

----------------------------------------------------------------------------
(* Dates *)

\* the outcome of a strptime call that raises ValueError
ValueError == [error |-> "ValueError"]

IsLeap(y) == (y % 4 = 0 /\ y % 100 # 0) \/ y % 400 = 0

DaysInMonth(y, m) ==
    IF m = 2 THEN (IF IsLeap(y) THEN 29 ELSE 28)
    ELSE IF m \in {4, 6, 9, 11} THEN 30 ELSE 31

\* the text the %m directive accepts: 1[0-2] | 0[1-9] | [1-9]
IsMonthText(t) ==
    \/ Len(t) = 2 /\ t[1] = "1" /\ t[2] \in {"0", "1", "2"}
    \/ Len(t) = 2 /\ t[1] = "0" /\ IsDigit(t[2]) /\ t[2] # "0"
    \/ Len(t) = 1 /\ IsDigit(t[1]) /\ t[1] # "0"

\* the text the %d directive accepts: 3[01] | [12]\d | 0[1-9] | [1-9] | " "[1-9]
IsDayText(t) ==
    \/ Len(t) = 2 /\ t[1] = "3" /\ t[2] \in {"0", "1"}
    \/ Len(t) = 2 /\ t[1] \in {"1", "2"} /\ IsDigit(t[2])
    \/ Len(t) = 2 /\ t[1] \in {"0", " "} /\ IsDigit(t[2]) /\ t[2] # "0"
    \/ Len(t) = 1 /\ IsDigit(t[1]) /\ t[1] # "0"

\* the number a matched %m or %d text stands for
FieldVal(t) == ToNat(SelectSeq(t, IsDigit))

\* datetime(y, m, d), which raises ValueError for a date that does not exist
MakeDate(y, m, d) ==
    IF y >= 1 /\ d <= DaysInMonth(y, m)
    THEN [year |-> y, month |-> m, day |-> d]
    ELSE ValueError

\* datetime.strptime(s, '%Y-%m-%d')
StrptimeIso(s) ==
    LET dash2 == {p \in {7, 8} : p <= Len(s) /\ s[p] = "-"}
    IN  IF Len(s) >= 8 /\ AllDigits(SubSeq(s, 1, 4)) /\ s[5] = "-" /\ dash2 # {}
        THEN LET p  == CHOOSE q \in dash2 : \A r \in dash2 : q <= r
                 mt == SubSeq(s, 6, p - 1)
                 dt == SubSeq(s, p + 1, Len(s))
             IN  IF IsMonthText(mt) /\ IsDayText(dt)
                 THEN MakeDate(ToNat(SubSeq(s, 1, 4)), FieldVal(mt), FieldVal(dt))
                 ELSE ValueError
        ELSE ValueError

\* datetime.strptime(s, '%y%m%d') on a string of six characters: two-digit
\* years 00..68 are 20xx, 69..99 are 19xx
StrptimeCompact(s) ==
    LET yt == SubSeq(s, 1, 2)
        mt == SubSeq(s, 3, 4)
        dt == SubSeq(s, 5, 6)
    IN  IF AllDigits(yt) /\ IsMonthText(mt) /\ IsDayText(dt)
        THEN MakeDate(IF ToNat(yt) <= 68 THEN 2000 + ToNat(yt) ELSE 1900 + ToNat(yt),
                      FieldVal(mt), FieldVal(dt))
        ELSE ValueError

\* the fallback of parse_date
SENTINEL == [year |-> 2000, month |-> 1, day |-> 1]

DATE_KEYS == <<"Report_Date_as_YYYY-MM-DD", "As_of_Date_In_Form_YYMMDD">>

\* one pass of parse_date's loop body: a datetime when the body returns one,
\* ValueError when it falls through to the next key
ParseDateValue(val) ==
    IF val = <<>> THEN ValueError
    ELSE IF Contains(val, <<"-">>) THEN StrptimeIso(Take(val, 10))
    ELSE IF Len(val) = 6 THEN StrptimeCompact(val)
    ELSE ValueError

RECURSIVE ParseDateFrom(_, _)
ParseDateFrom(row, k) ==
    IF k > Len(DATE_KEYS) THEN SENTINEL
    ELSE LET got == ParseDateValue(Strip(Get(row, DATE_KEYS[k], <<>>)))
         IN  IF got # ValueError THEN got ELSE ParseDateFrom(row, k + 1)

parse_date(row) == ParseDateFrom(row, 1)

\* dt.strftime('%Y-%m-%d'), for years of four digits
FormatDate(dt) ==
    Pad(dt.year, 4) \o <<"-">> \o Pad(dt.month, 2) \o <<"-">> \o Pad(dt.day, 2)

\* a < b on datetimes
DateLess(a, b) ==
    \/ a.year < b.year
    \/ a.year = b.year /\ a.month < b.month
    \/ a.year = b.year /\ a.month = b.month /\ a.day < b.day

----------------------------------------------------------------------------
(* Numbers *)

\* int(float(s)): [value |-> the integer part, truncated toward zero] of a
\* plain decimal literal ([sign] digits [. digits], surrounding blanks
\* allowed); ValueError for any other text over the characters used here
\* (digits, sign, point, blank, letters other than exponent, inf and nan forms)
IntOfFloat(s) ==
    LET t      == Strip(s)
        signed == t # <<>> /\ t[1] \in {"+", "-"}
        body   == IF signed THEN Tail(t) ELSE t
        dots   == {i \in 1..Len(body) : body[i] = "."}
        whole  == IF dots = {} THEN body
                  ELSE SubSeq(body, 1, (CHOOSE i \in dots : TRUE) - 1)
        mag    == ToNat(whole)
    IN  IF /\ \A i \in 1..Len(body) : IsDigit(body[i]) \/ body[i] = "."
           /\ Cardinality(dots) <= 1
           /\ \E i \in 1..Len(body) : IsDigit(body[i])
        THEN [value |-> IF signed /\ t[1] = "-" THEN 0 - mag ELSE mag]
        ELSE ValueError

safe_int(row, key) ==
    LET v == Get(row, key, <<>>)
    IN  IF v = <<>> THEN 0
        ELSE IF IntOfFloat(v) = ValueError THEN 0 ELSE IntOfFloat(v).value

----------------------------------------------------------------------------
(* Ordering, deduplication and windowing of matched rows *)

\* the slice bound of unique[:52]
WINDOW == 52

\* the keys list.sort computes, once per row
SortKeys(rows) == [i \in 1..Len(rows) |-> parse_date(rows[i])]

\* where a stable descending sort puts each row: after the rows with a greater
\* key and after the earlier rows with an equal key (reverse=True keeps the
\* original order of equal keys)
SortedPosition(key) ==
    [i \in DOMAIN key |->
        Cardinality({j \in DOMAIN key : DateLess(key[i], key[j])})
        + Cardinality({j \in 1..i : key[j] = key[i]})]

\* rows.sort(key=parse_date, reverse=True)
SortByDateDesc(rows) ==
    Bind(SortedPosition(SortKeys(rows)),
         LAMBDA pos : [p \in 1..Len(rows) |->
                          rows[CHOOSE i \in 1..Len(rows) : pos[i] = p]])

\* d = parse_date(r).strftime('%Y-%m-%d') for each row
DateTexts(rows) == [i \in 1..Len(rows) |-> FormatDate(parse_date(rows[i]))]

\* Dedup with the last row of each date kept instead of the first
DedupKeepingLast(rows) ==
    IF rows = <<>> THEN <<>>
    ELSE
    Bind(DateTexts(rows), LAMBDA d :
    Bind([i \in 1..Len(rows) |-> d[i] \notin {d[j] : j \in (i + 1)..Len(rows)}],
         LAMBDA new :
    Bind([i \in 1..Len(rows) |-> Cardinality({j \in 1..i : new[j]})], LAMBDA count :
        [p \in 1..count[Len(rows)] |->
            rows[CHOOSE i \in 1..Len(rows) : new[i] /\ count[i] = p]])))

\* the loop that fills seen and unique: when row i is reached, seen holds the
\* dates of the rows before it; the row is appended when its date is not in
\* seen, and then stands in unique after the rows appended before it
Dedup(rows) ==
    IF rows = <<>> THEN <<>>
    ELSE
    Bind(DateTexts(rows), LAMBDA d :
    Bind([i \in 1..Len(rows) |-> d[i] \notin {d[j] : j \in 1..(i - 1)}], LAMBDA new :
    Bind([i \in 1..Len(rows) |-> Cardinality({j \in 1..i : new[j]})], LAMBDA count :
        [p \in 1..count[Len(rows)] |->
            rows[CHOOSE i \in 1..Len(rows) : new[i] /\ count[i] = p]])))

\* the list unique of process_tff_rows and process_legacy_rows
UniqueRows(rows) == Bind(SortByDateDesc(rows), LAMBDA sorted : Dedup(sorted))

\* WindowRows with the slice one entry too long
WindowRowsOneMore(unique) == Take(unique, WINDOW + 1)

\* unique[:52]
WindowRows(unique) == Take(unique, WINDOW)

\* the dict process_tff_rows appends for one row
TffObservation(row) ==
    LET lev_long     == safe_int(row, "Lev_Money_Positions_Long_All")
        lev_short    == safe_int(row, "Lev_Money_Positions_Short_All")
        asset_long   == safe_int(row, "Asset_Mgr_Positions_Long_All")
        asset_short  == safe_int(row, "Asset_Mgr_Positions_Short_All")
        dealer_long  == safe_int(row, "Dealer_Positions_Long_All")
        dealer_short == safe_int(row, "Dealer_Positions_Short_All")
        nr_long      == safe_int(row, "NonRept_Positions_Long_All")
        nr_short     == safe_int(row, "NonRept_Positions_Short_All")
        net_lev      == lev_long - lev_short
        net_asset    == asset_long - asset_short
    IN  [date |-> FormatDate(parse_date(row)),
         lev_long |-> lev_long, lev_short |-> lev_short, net_lev |-> net_lev,
         asset_long |-> asset_long, asset_short |-> asset_short,
         net_asset |-> net_asset,
         dealer_long |-> dealer_long, dealer_short |-> dealer_short,
         nonrept_long |-> nr_long, nonrept_short |-> nr_short,
         net_noncomm |-> net_lev + net_asset,
         noncomm_long |-> lev_long, noncomm_short |-> lev_short,
         comm_long |-> asset_long, comm_short |-> asset_short,
         net_comm |-> net_asset]

\* the dict process_legacy_rows appends for one row
LegacyObservation(row) ==
    LET nc_long  == safe_int(row, "NonComm_Positions_Long_All")
        nc_short == safe_int(row, "NonComm_Positions_Short_All")
        c_long   == safe_int(row, "Comm_Positions_Long_All")
        c_short  == safe_int(row, "Comm_Positions_Short_All")
        nr_long  == safe_int(row, "NonRept_Positions_Long_All")
        nr_short == safe_int(row, "NonRept_Positions_Short_All")
        net_nc   == nc_long - nc_short
    IN  [date |-> FormatDate(parse_date(row)),
         lev_long |-> nc_long, lev_short |-> nc_short, net_lev |-> net_nc,
         asset_long |-> c_long, asset_short |-> c_short,
         net_asset |-> c_long - c_short,
         dealer_long |-> 0, dealer_short |-> 0,
         nonrept_long |-> nr_long, nonrept_short |-> nr_short,
         net_noncomm |-> net_nc,
         noncomm_long |-> nc_long, noncomm_short |-> nc_short,
         comm_long |-> c_long, comm_short |-> c_short,
         net_comm |-> c_long - c_short]

process_tff_rows(rows) ==
    Bind(WindowRows(UniqueRows(rows)),
         LAMBDA win : [i \in 1..Len(win) |-> TffObservation(win[i])])

process_legacy_rows(rows) ==
    Bind(WindowRows(UniqueRows(rows)),
         LAMBDA win : [i \in 1..Len(win) |-> LegacyObservation(win[i])])

----------------------------------------------------------------------------
(* The COT index, the week-over-week change and the summary *)

Nets(weekly) == [i \in 1..Len(weekly) |-> weekly[i].net_noncomm]

\* max(nets) and min(nets) of a non-empty list
MaxOf(nets) ==
    Bind({nets[i] : i \in 1..Len(nets)},
         LAMBDA vals : CHOOSE x \in vals : \A y \in vals : y <= x)

MinOf(nets) ==
    Bind({nets[i] : i \in 1..Len(nets)},
         LAMBDA vals : CHOOSE x \in vals : \A y \in vals : x <= y)

\* RoundedIndex without the scaling to a percentage
RoundedIndexUnscaled(num, den, tieUp) == (num * 10) \div den

\* round(num / den * 100, 1) in tenths, for num >= 0 and den > 0.  The float
\* quotient is within rounding error of the exact one, so the result is the
\* nearest tenth; when the exact value lies half-way between two tenths the
\* float may fall on either side, and tieUp picks the side.
RoundedIndex(num, den, tieUp) ==
    LET q == (num * 1000) \div den
        r == (num * 1000) % den
    IN  IF 2 * r < den THEN q
        ELSE IF 2 * r > den THEN q + 1
        ELSE IF tieUp THEN q + 1 ELSE q

\* WowChange with the difference taken the other way round
WowChangeReversed(weekly, i) ==
    IF i < Len(weekly)
    THEN weekly[i + 1].net_noncomm - weekly[i].net_noncomm
    ELSE 0

\* w["wow_change"] for the entry at 1-based position i
WowChange(weekly, i) ==
    IF i < Len(weekly)
    THEN weekly[i].net_noncomm - weekly[i + 1].net_noncomm
    ELSE 0

\* weekly[i] with w["cot_index"] and w["wow_change"] set
WithIndex(w, cot_index, wow_change) ==
    [date |-> w.date,
     lev_long |-> w.lev_long, lev_short |-> w.lev_short, net_lev |-> w.net_lev,
     asset_long |-> w.asset_long, asset_short |-> w.asset_short,
     net_asset |-> w.net_asset,
     dealer_long |-> w.dealer_long, dealer_short |-> w.dealer_short,
     nonrept_long |-> w.nonrept_long, nonrept_short |-> w.nonrept_short,
     net_noncomm |-> w.net_noncomm,
     noncomm_long |-> w.noncomm_long, noncomm_short |-> w.noncomm_short,
     comm_long |-> w.comm_long, comm_short |-> w.comm_short,
     net_comm |-> w.net_comm,
     cot_index |-> cot_index, wow_change |-> wow_change]

\* add_cot_index; cot_index is held in tenths (1000 is 100.0)
add_cot_index(weekly, tieUp) ==
    IF weekly = <<>> THEN weekly
    ELSE Bind(<<MaxOf(Nets(weekly)), MinOf(Nets(weekly))>>,
              LAMBDA ext :
                 LET max_net == ext[1]
                     min_net == ext[2]
                     rng     == IF max_net # min_net THEN max_net - min_net ELSE 1
                 IN  [i \in 1..Len(weekly) |->
                         WithIndex(weekly[i],
                                   RoundedIndex(weekly[i].net_noncomm - min_net,
                                                rng, tieUp),
                                   WowChange(weekly, i))])

\* build_result with latest taken from the other end of the list
build_result_latest_last(weekly) ==
    [k \in {"weeks", "latest", "52w_high", "52w_low", "cot_index"} |->
        CASE k = "weeks"     -> weekly
          [] k = "latest"    -> weekly[Len(weekly)]
          [] k = "52w_high"  -> MaxOf(Nets(weekly))
          [] k = "52w_low"   -> MinOf(Nets(weekly))
          [] k = "cot_index" -> weekly[Len(weekly)].cot_index]

ResultKeys == {"weeks", "latest", "52w_high", "52w_low", "cot_index"}

\* build_result, applied to a non-empty list
build_result(weekly) ==
    [k \in ResultKeys |->
        CASE k = "weeks"     -> weekly
          [] k = "latest"    -> weekly[1]
          [] k = "52w_high"  -> MaxOf(Nets(weekly))
          [] k = "52w_low"   -> MinOf(Nets(weekly))
          [] k = "cot_index" -> weekly[1].cot_index]

----------------------------------------------------------------------------
(* Matching rows to an instrument *)

CODE_COLUMNS == <<"CFTC_Contract_Market_Code", "CFTC_Contract_MarketCode">>

\* [r for r in all_rows if r.get(col, '').strip() == code]
MatchByCode(all_rows, col, code) ==
    LET Hit(r) == Strip(Get(r, col, <<>>)) = code
    IN  SelectSeq(all_rows, Hit)

\* the name fallback comparing the letters as they stand
MatchByNameExact(all_rows, name_search) ==
    LET Hit(r) == Contains(Get(r, "Market_and_Exchange_Names", <<>>), name_search)
    IN  SelectSeq(all_rows, Hit)

\* [r for r in all_rows if name_search.upper() in r.get(names, '').upper()]
MatchByName(all_rows, name_search) ==
    LET Hit(r) == Contains(ToUpper(Get(r, "Market_and_Exchange_Names", <<>>)),
                           ToUpper(name_search))
    IN  SelectSeq(all_rows, Hit)

RECURSIVE FindFrom(_, _, _, _)
\* the loop over the column-name variants, then the name fallback
FindFrom(all_rows, code, name_search, k) ==
    IF k > Len(CODE_COLUMNS) THEN MatchByName(all_rows, name_search)
    ELSE LET matched == MatchByCode(all_rows, CODE_COLUMNS[k], code)
         IN  IF matched # <<>> THEN matched
             ELSE FindFrom(all_rows, code, name_search, k + 1)

\* find_rows with the name matches added to the code matches
find_rows_merging(all_rows, code, name_search) ==
    LET by_code == FindFrom(all_rows, code, <<"(no such name)">>, 1)
        by_name == MatchByName(all_rows, name_search)
        New(r)  == \A i \in 1..Len(by_code) : by_code[i] # r
    IN  by_code \o SelectSeq(by_name, New)

find_rows(all_rows, code, name_search) == FindFrom(all_rows, code, name_search, 1)

----------------------------------------------------------------------------
(* Configuration *)

TFF_SYMBOLS == <<"EUR", "GBP", "JPY", "CHF", "CAD", "AUD", "NZD">>

TFF_CODES ==
    [c \in {TFF_SYMBOLS[i] : i \in 1..Len(TFF_SYMBOLS)} |->
        CASE c = "EUR" -> <<"0", "9", "9", "7", "4", "1">>
          [] c = "GBP" -> <<"0", "9", "6", "7", "4", "2">>
          [] c = "JPY" -> <<"0", "9", "7", "7", "4", "1">>
          [] c = "CHF" -> <<"0", "9", "2", "7", "4", "1">>
          [] c = "CAD" -> <<"0", "9", "0", "7", "4", "1">>
          [] c = "AUD" -> <<"2", "3", "2", "7", "4", "1">>
          [] c = "NZD" -> <<"1", "1", "2", "7", "4", "1">>]

USD_CODE == <<"0", "9", "8", "6", "6", "2">>

NAME_MAP ==
    [c \in {TFF_SYMBOLS[i] : i \in 1..Len(TFF_SYMBOLS)} \cup {"USD"} |->
        CASE c = "EUR" -> <<"E", "U", "R", "O", " ", "F", "X">>
          [] c = "GBP" -> <<"B", "R", "I", "T", "I", "S", "H", " ",
                            "P", "O", "U", "N", "D">>
          [] c = "JPY" -> <<"J", "A", "P", "A", "N", "E", "S", "E", " ",
                            "Y", "E", "N">>
          [] c = "CHF" -> <<"S", "W", "I", "S", "S", " ", "F", "R", "A", "N", "C">>
          [] c = "CAD" -> <<"C", "A", "N", "A", "D", "I", "A", "N", " ",
                            "D", "O", "L", "L", "A", "R">>
          [] c = "AUD" -> <<"A", "U", "S", "T", "R", "A", "L", "I", "A", "N", " ",
                            "D", "O", "L", "L", "A", "R">>
          [] c = "NZD" -> <<"N", "E", "W", " ", "Z", "E", "A", "L", "A", "N", "D", " ",
                            "D", "O", "L", "L", "A", "R">>
          [] c = "USD" -> <<"U", ".", "S", ".", " ", "D", "O", "L", "L", "A", "R", " ",
                            "I", "N", "D", "E", "X">>]

\* the candidate locators of each family, by position in TFF_URLS / LEGACY_URLS
TFF_URLS == <<"fut_fin_txt_{year}.zip", "fut_fin_xls_{year}.zip">>

LEGACY_URLS == <<"fut_2_txt_{year}.zip", "com_2_txt_{year}.zip">>

----------------------------------------------------------------------------
(* State *)

VARIABLES
    pc,            \* the position of the run
    family,        \* "tff" or "legacy": which process_*_rows is applied
    given,         \* the list handed to process_*_rows, as handed over
    rows,          \* the same list object, sorted in place by the call
    unique,        \* the local list unique at the end of process_*_rows
    weekly,        \* the weekly list
    result,        \* what build_result returned
    all_rows,      \* find_rows: the record collection
    code,          \* find_rows: the descriptor's market code
    name_search,   \* find_rows: the descriptor's name fragment
    matched,       \* find_rows: the returned list
    current_year,  \* fetch_cot_data: datetime.now().year
    year_i,        \* fetch_cot_data: position in [current_year, current_year - 1]
    url_i,         \* fetch_cot_data: position in the family's url list
    fetched,       \* fetch_cot_data: the legacy loop's flag
    sym_i,         \* fetch_cot_data: position in TFF_CODES.items()
    tff_rows,
    legacy_rows,
    results,
    cot_data,      \* what has been written to cot_data.json: <<>> or <<envelope>>
    log            \* the lines printed so far, as events

seriesVars == <<family, given, rows, unique, weekly, result>>

findVars == <<all_rows, code, name_search, matched>>

fetchVars == <<current_year, year_i, url_i, fetched, sym_i, tff_rows, legacy_rows,
               results, cot_data, log>>

vars == <<pc, seriesVars, findVars, fetchVars>>

\* the values of the variables a specification does not use
SeriesIdle ==
    /\ family = "tff" /\ given = <<>> /\ rows = <<>> /\ unique = <<>>
    /\ weekly = <<>> /\ result = <<>>

FindIdle ==
    /\ all_rows = <<>> /\ code = <<>> /\ name_search = <<>> /\ matched = <<>>

FetchIdle ==
    /\ current_year = 0 /\ year_i = 0 /\ url_i = 0 /\ fetched = FALSE /\ sym_i = 0
    /\ tff_rows = <<>> /\ legacy_rows = <<>> /\ results = <<>>
    /\ cot_data = <<>> /\ log = <<>>

----------------------------------------------------------------------------
(* The network and the archives *)

\* what fetch_zip returns when it does not return the content
None == [type |-> "None"]

\* the size a response must exceed
MIN_SIZE == 1000

\* requests.get raised, or the response with its status, size and content
Responses(archives) ==
    {[raised |-> TRUE, status_code |-> 0, size |-> 0, content |-> None]}
    \cup {[raised |-> FALSE, status_code |-> 404, size |-> MIN_SIZE + 1,
           content |-> None],
          [raised |-> FALSE, status_code |-> 200, size |-> MIN_SIZE,
           content |-> None]}
    \cup {[raised |-> FALSE, status_code |-> 200, size |-> MIN_SIZE + 1,
           content |-> a] : a \in archives}

\* fetch_zip, given what requests.get did
fetch_zip(resp) ==
    IF ~resp.raised /\ resp.status_code = 200 /\ resp.size > MIN_SIZE
    THEN resp.content
    ELSE None

EndsWith(name, suffix) ==
    /\ Len(name) >= Len(suffix)
    /\ SubSeq(name, Len(name) - Len(suffix) + 1, Len(name)) = suffix

IsTabular(member) ==
    \/ EndsWith(member.filename, <<".", "t", "x", "t">>)
    \/ EndsWith(member.filename, <<".", "c", "s", "v">>)

\* parse_zip: the rows of the first .txt or .csv member; no rows when the
\* bytes are not a zip archive or no member is tabular
parse_zip(content) ==
    IF content.corrupt THEN <<>>
    ELSE LET tabular == SelectSeq(content.members, IsTabular)
         IN  IF tabular = <<>> THEN <<>> ELSE tabular[1].rows

\* a csv row of a report file
ReportRow(fam, code_col, market_code, name, iso, long) ==
    Dict(<< <<code_col, market_code>>,
            <<"Market_and_Exchange_Names", name>>,
            <<DATE_KEYS[1], iso>>,
            <<IF fam = "tff" THEN "Lev_Money_Positions_Long_All"
                             ELSE "NonComm_Positions_Long_All", long>> >>)

CME == <<" ", "-", " ", "C", "M", "E">>

\* the archives a TFF locator may serve
TffArchives ==
    { [corrupt |-> TRUE, members |-> <<>>],
      [corrupt |-> FALSE,
       members |-> <<[filename |-> <<"f", ".", "x", "l", "s">>,
                      rows |-> <<ReportRow("tff", CODE_COLUMNS[1], TFF_CODES["EUR"],
                                           NAME_MAP["EUR"],
                                           <<"2", "0", "2", "5", "-", "0", "1", "-", "0", "7">>,
                                           <<"1">>)>>]>>],
      \* EUR twice by code, GBP by name only, AUD by code
      [corrupt |-> FALSE,
       members |-> <<[filename |-> <<"r", ".", "p", "d", "f">>, rows |-> <<>>],
                     [filename |-> <<"F", ".", "t", "x", "t">>,
                      rows |-> <<
          ReportRow("tff", CODE_COLUMNS[1], TFF_CODES["EUR"], NAME_MAP["EUR"] \o CME,
                    <<"2", "0", "2", "5", "-", "0", "1", "-", "1", "4">>,
                    <<"1", "0", "0", "0">>),
          ReportRow("tff", CODE_COLUMNS[1], TFF_CODES["EUR"], NAME_MAP["EUR"] \o CME,
                    <<"2", "0", "2", "5", "-", "0", "1", "-", "0", "7">>,
                    <<"2", "0", "0">>),
          ReportRow("tff", "Contract_Units", <<"x">>,
                    <<"B", "r", "i", "t", "i", "s", "h", " ", "P", "o", "u", "n", "d">>,
                    <<"2", "0", "2", "5", "-", "0", "1", "-", "1", "4">>,
                    <<"5">>),
          ReportRow("tff", CODE_COLUMNS[1], TFF_CODES["AUD"], <<>>,
                    <<"2", "0", "2", "5", "-", "0", "1", "-", "1", "4">>,
                    <<"-", "7">>) >>]>>],
      \* EUR by code under the second column name, USD by code
      [corrupt |-> FALSE,
       members |-> <<[filename |-> <<"F", ".", "c", "s", "v">>,
                      rows |-> <<
          ReportRow("tff", CODE_COLUMNS[2], TFF_CODES["EUR"], NAME_MAP["EUR"] \o CME,
                    <<"2", "0", "2", "4", "-", "1", "2", "-", "3", "1">>,
                    <<"6", "0", "0">>),
          ReportRow("tff", CODE_COLUMNS[2], USD_CODE, NAME_MAP["USD"],
                    <<"2", "0", "2", "4", "-", "1", "2", "-", "3", "1">>,
                    <<"4", "0">>) >>]>>] }

\* the archives a Legacy locator may serve
LegacyArchives ==
    { [corrupt |-> TRUE, members |-> <<>>],
      [corrupt |-> FALSE, members |-> <<[filename |-> <<"r", ".", "p", "d", "f">>,
                                        rows |-> <<>>]>>],
      \* USD by name, and another market
      [corrupt |-> FALSE,
       members |-> <<[filename |-> <<"L", ".", "t", "x", "t">>,
                      rows |-> <<
          ReportRow("legacy", CODE_COLUMNS[1], <<"0", "0", "1", "6", "0", "2">>,
                    <<"W", "H", "E", "A", "T">>,
                    <<"2", "0", "2", "5", "-", "0", "1", "-", "1", "4">>,
                    <<"9">>),
          ReportRow("legacy", CODE_COLUMNS[1], <<"0", "9", "8", "6", "6", "X">>,
                    <<"u", ".", "s", ".", " ", "D", "o", "l", "l", "a", "r", " ",
                      "I", "n", "d", "e", "x", " ", "-", " ", "I", "C", "E">>,
                    <<"2", "0", "2", "5", "-", "0", "1", "-", "1", "4">>,
                    <<"3", "0", "0">>) >>]>>],
      \* no USD row
      [corrupt |-> FALSE,
       members |-> <<[filename |-> <<"L", ".", "t", "x", "t">>,
                      rows |-> <<
          ReportRow("legacy", CODE_COLUMNS[1], <<"0", "0", "1", "6", "0", "2">>,
                    <<"W", "H", "E", "A", "T">>,
                    <<"2", "0", "2", "4", "-", "1", "2", "-", "3", "1">>,
                    <<"8">>) >>]>>] }

----------------------------------------------------------------------------
(* The series pipeline on its own: process_*_rows, add_cot_index,          *)
(* build_result applied to bounded lists of matched rows                   *)

\* the longest list of arbitrary rows
MaxTail == 3

\* the longest generated weekly history
MaxHist == 80

Families == {"tff", "legacy"}

HistLens == {WINDOW - 1, WINDOW, WINDOW + 1, MaxHist}

SeqsUpTo(S, n) == UNION {[1..m -> S] : m \in 0..n}

\* stands for a column the row does not have
NoColumn == <<"(no column)">>

\* a csv row of the given family
RowOf(fam, iso, compact, long, short, other) ==
    LET items == << <<DATE_KEYS[1], iso>>, <<DATE_KEYS[2], compact>>,
                    <<IF fam = "tff" THEN "Lev_Money_Positions_Long_All"
                                     ELSE "NonComm_Positions_Long_All", long>>,
                    <<IF fam = "tff" THEN "Lev_Money_Positions_Short_All"
                                     ELSE "NonComm_Positions_Short_All", short>>,
                    <<IF fam = "tff" THEN "Asset_Mgr_Positions_Long_All"
                                     ELSE "Comm_Positions_Long_All", other>> >>
        Has(item) == item[2] # NoColumn
    IN  Dict(SelectSeq(items, Has))

\* week i of a generated history, week 0 the newest: four reports a month,
\* both date columns filled as the publisher fills them
HistoryRow(fam, i) ==
    LET q  == i \div 4
        dt == [year |-> 2024 - (q \div 12), month |-> 12 - (q % 12),
               day |-> 22 - 7 * (i % 4)]
    IN  RowOf(fam, FormatDate(dt),
              Pad(dt.year % 100, 2) \o Pad(dt.month, 2) \o Pad(dt.day, 2),
              Pad(1000 + 100 * ((7 * i) % 13), 1), <<"5", "0", "0">>,
              Pad(10 * (i % 5), 1))

History(fam, k, newestFirst) ==
    [p \in 1..k |-> HistoryRow(fam, IF newestFirst THEN p - 1 ELSE k - p)]

\* rows that are not part of a regular history
PoolRows(fam) ==
    { \* 2024-12-29, net 1000
      RowOf(fam, <<"2", "0", "2", "4", "-", "1", "2", "-", "2", "9">>, NoColumn,
            <<"1", "0", "0", "0">>, NoColumn, NoColumn),
      \* an impossible ISO date, then 2024-12-22 (week 0 of a history), net 200
      RowOf(fam, <<"2", "0", "2", "4", "-", "0", "2", "-", "3", "0">>,
            <<"2", "4", "1", "2", "2", "2">>,
            <<"3", "0", "0", ".", "0">>, <<"1", "0", "0">>, <<>>),
      \* no date that parses, net -50 (tff: -43)
      RowOf(fam, <<" ", " ">>, NoColumn,
            <<"-", "5", "0", ".", "9">>, <<>>, <<"7">>),
      \* 1999-12-28 in the compact form only, net 0
      RowOf(fam, NoColumn, <<"9", "9", "1", "2", "2", "8">>,
            <<"a", "b", "c">>, <<" ">>, NoColumn),
      \* 2000-01-01 with a time of day, net 1
      RowOf(fam, <<"2", "0", "0", "0", "-", "0", "1", "-", "0", "1", "T",
                   "0", "0", ":", "0", "0">>, <<"x">>,
            <<"1">>, NoColumn, NoColumn),
      \* 2024-12-29 again, written loosely, net 16
      RowOf(fam, <<" ", "2", "0", "2", "4", "-", "1", "2", "-", "2", "9", " ">>,
            <<"2", "4", "1", "2", "2", "9">>,
            <<" ", "1", "6", " ">>, <<"0">>, NoColumn) }

\* the non-empty lists of matched rows tried: every list of up to MaxTail pool
\* rows, and every generated history, in either order, alone or with one pool
\* row in front of it or behind it
SeriesInputs(fam) ==
    LET extra == {<<>>} \cup {<<r>> : r \in PoolRows(fam)}
    IN  (SeqsUpTo(PoolRows(fam), MaxTail) \ {<<>>})
        \cup { around[1] \o History(fam, k, nf) \o around[2] :
                 k \in HistLens, nf \in BOOLEAN,
                 around \in {a \in extra \X extra : a[1] = <<>> \/ a[2] = <<>>} }

SeriesInit ==
    /\ pc = "rows"
    /\ family \in Families
    /\ given \in SeriesInputs(family)
    /\ rows = given
    /\ unique = <<>> /\ weekly = <<>> /\ result = <<>>
    /\ FindIdle /\ FetchIdle

\* weekly = process_tff_rows(rows) or process_legacy_rows(rows)
ProcessRows ==
    /\ pc = "rows"
    /\ rows' = SortByDateDesc(rows)
    /\ unique' = UniqueRows(rows)
    /\ weekly' = IF family = "tff" THEN process_tff_rows(rows)
                                   ELSE process_legacy_rows(rows)
    /\ pc' = "weekly"
    /\ UNCHANGED <<family, given, result, findVars, fetchVars>>

\* weekly = add_cot_index(weekly)
AddCotIndex ==
    /\ pc = "weekly"
    /\ \E tieUp \in BOOLEAN : weekly' = add_cot_index(weekly, tieUp)
    /\ pc' = "indexed"
    /\ UNCHANGED <<family, given, rows, unique, result, findVars, fetchVars>>

\* build_result(weekly), which the callers apply to the weeks of a match
BuildResult ==
    /\ pc = "indexed"
    /\ weekly # <<>>
    /\ result' = build_result(weekly)
    /\ pc' = "built"
    /\ UNCHANGED <<family, given, rows, unique, weekly, findVars, fetchVars>>

SeriesNext == ProcessRows \/ AddCotIndex \/ BuildResult

SeriesSpec == SeriesInit /\ [][SeriesNext]_vars

----------------------------------------------------------------------------
(* fetch_cot_data *)

\* the values datetime.now().year takes
CurrentYears == {2025, 2026}

\* [current_year, current_year - 1]
Years == <<current_year, current_year - 1>>

\* the line fetch_zip and parse_zip print for one candidate: the locator, and
\* whether fetch_zip returned the content and how many rows parse_zip read
FetchEvent(fam, url, year, content) ==
    [op |-> "fetch", family |-> fam, url |-> url, year |-> year,
     accepted |-> content # None,
     rows |-> IF content # None THEN Len(parse_zip(content)) ELSE 0]

\* the line printed when an instrument is searched for
SearchEvent(symbol, fam, found) ==
    [op |-> "search", symbol |-> symbol, family |-> fam, matched |-> Len(found)]

\* the warning printed when no legacy candidate of a year gave rows
WarningEvent(year) == [op |-> "warning", year |-> year]

\* d[k] = v on a dict
Put(d, k, v) == [x \in DOMAIN d \cup {k} |-> IF x = k THEN v ELSE d[x]]

\* the TFF loop over the candidates stops without the break
BreaksTffLoopNever(content) == FALSE

\* lines 201-203: the candidate's content ends the loop over the candidates
BreaksTffLoop(content) == content # None

\* lines 242-247: the candidate ends the loop when its content has rows
BreaksLegacyLoop(content) == content # None /\ parse_zip(content) # <<>>

\* the test for missing TFF data never succeeds
NoTffDataNever(parsed) == FALSE

\* line 207: if not tff_rows
NoTffData(parsed) == parsed = <<>>

FetchInit ==
    /\ pc = "fetch_tff"
    /\ current_year \in CurrentYears
    /\ year_i = 1 /\ url_i = 1 /\ fetched = FALSE /\ sym_i = 1
    /\ tff_rows = <<>> /\ legacy_rows = <<>> /\ results = <<>>
    /\ cot_data = <<>> /\ log = <<>>
    /\ SeriesIdle /\ FindIdle

\* one pass of the loop of lines 199-203, with the step to the next year and
\* out of the loop of line 198
FetchTff ==
    /\ pc = "fetch_tff"
    /\ \E resp \in Responses(TffArchives) :
          LET content  == fetch_zip(resp)
              leaves   == BreaksTffLoop(content) \/ url_i = Len(TFF_URLS)
          IN  /\ tff_rows' = IF content # None
                             THEN tff_rows \o parse_zip(content)
                             ELSE tff_rows
              /\ log' = Append(log, FetchEvent("tff", TFF_URLS[url_i],
                                              Years[year_i], content))
              /\ url_i' = IF leaves THEN 1 ELSE url_i + 1
              /\ year_i' = IF leaves /\ year_i < Len(Years) THEN year_i + 1
                           ELSE year_i
              /\ pc' = IF leaves /\ year_i = Len(Years) THEN "check_tff"
                       ELSE "fetch_tff"
    /\ UNCHANGED <<current_year, fetched, sym_i, legacy_rows, results, cot_data,
                   seriesVars, findVars>>

\* lines 207-211: the error envelope is written and the run returns
WriteError ==
    /\ pc = "check_tff"
    /\ NoTffData(tff_rows)
    /\ cot_data' = Append(cot_data,
                          Dict(<< <<"updated_at", "utcnow">>,
                                  <<"error", "Could not fetch TFF data">>,
                                  <<"data", <<>> >> >>))
    /\ pc' = "done"
    /\ UNCHANGED <<current_year, year_i, url_i, fetched, sym_i, tff_rows,
                   legacy_rows, results, log, seriesVars, findVars>>

\* line 213
BeginMatching ==
    /\ pc = "check_tff"
    /\ ~NoTffData(tff_rows)
    /\ results' = <<>>
    /\ sym_i' = 1
    /\ pc' = "match"
    /\ UNCHANGED <<current_year, year_i, url_i, fetched, tff_rows, legacy_rows,
                   cot_data, log, seriesVars, findVars>>

\* one pass of the loop of lines 216-224
MatchInstrument ==
    /\ pc = "match"
    /\ LET symbol == TFF_SYMBOLS[sym_i]
           found  == find_rows(tff_rows, TFF_CODES[symbol], NAME_MAP[symbol])
       IN  /\ log' = Append(log, SearchEvent(symbol, "tff", found))
           /\ IF found = <<>>
              THEN results' = results
              ELSE \E tieUp \in BOOLEAN :
                      results' = Put(results, symbol,
                                     build_result(add_cot_index(
                                         process_tff_rows(found), tieUp)))
    /\ sym_i' = IF sym_i < Len(TFF_SYMBOLS) THEN sym_i + 1 ELSE sym_i
    /\ pc' = IF sym_i < Len(TFF_SYMBOLS) THEN "match" ELSE "usd"
    /\ UNCHANGED <<current_year, year_i, url_i, fetched, tff_rows, legacy_rows,
                   cot_data, seriesVars, findVars>>

\* lines 228-237
SearchUsdInTff ==
    /\ pc = "usd"
    /\ LET found == find_rows(tff_rows, USD_CODE, NAME_MAP["USD"])
       IN  /\ log' = Append(log, SearchEvent("USD", "tff", found))
           /\ IF found # <<>>
              THEN /\ \E tieUp \in BOOLEAN :
                         results' = Put(results, "USD",
                                        build_result(add_cot_index(
                                            process_tff_rows(found), tieUp)))
                   /\ pc' = "write"
                   /\ UNCHANGED <<legacy_rows, year_i, url_i, fetched>>
              ELSE /\ legacy_rows' = <<>>
                   /\ year_i' = 1 /\ url_i' = 1 /\ fetched' = FALSE
                   /\ pc' = "fetch_legacy"
                   /\ UNCHANGED results
    /\ UNCHANGED <<current_year, sym_i, tff_rows, cot_data, seriesVars, findVars>>

\* one pass of the loop of lines 240-247, with lines 248-249, the step to the
\* next year and out of the loop of line 238
FetchLegacy ==
    /\ pc = "fetch_legacy"
    /\ \E resp \in Responses(LegacyArchives) :
          LET content == fetch_zip(resp)
              breaks  == BreaksLegacyLoop(content)
              leaves  == breaks \/ url_i = Len(LEGACY_URLS)
              event   == FetchEvent("legacy", LEGACY_URLS[url_i], Years[year_i],
                                    content)
          IN  /\ legacy_rows' = IF breaks THEN legacy_rows \o parse_zip(content)
                                ELSE legacy_rows
              /\ log' = IF leaves /\ ~breaks
                        THEN log \o <<event, WarningEvent(Years[year_i])>>
                        ELSE Append(log, event)
              /\ fetched' = IF leaves /\ year_i < Len(Years) THEN FALSE ELSE breaks
              /\ url_i' = IF leaves THEN 1 ELSE url_i + 1
              /\ year_i' = IF leaves /\ year_i < Len(Years) THEN year_i + 1
                           ELSE year_i
              /\ pc' = IF leaves /\ year_i = Len(Years) THEN "usd_legacy"
                       ELSE "fetch_legacy"
    /\ UNCHANGED <<current_year, sym_i, tff_rows, results, cot_data,
                   seriesVars, findVars>>

\* lines 251-263
SearchUsdInLegacy ==
    /\ pc = "usd_legacy"
    /\ IF legacy_rows # <<>>
       THEN LET found == find_rows(legacy_rows, USD_CODE, NAME_MAP["USD"])
            IN  /\ log' = Append(log, SearchEvent("USD", "legacy", found))
                /\ IF found # <<>>
                   THEN \E tieUp \in BOOLEAN :
                           results' = Put(results, "USD",
                                          build_result(add_cot_index(
                                              process_legacy_rows(found), tieUp)))
                   ELSE results' = results
       ELSE UNCHANGED <<log, results>>
    /\ pc' = "write"
    /\ UNCHANGED <<current_year, year_i, url_i, fetched, sym_i, tff_rows,
                   legacy_rows, cot_data, seriesVars, findVars>>

\* lines 265-270
WriteOutput ==
    /\ pc = "write"
    /\ cot_data' = Append(cot_data,
                          Dict(<< <<"updated_at", "utcnow">>,
                                  <<"data", results>> >>))
    /\ pc' = "done"
    /\ UNCHANGED <<current_year, year_i, url_i, fetched, sym_i, tff_rows,
                   legacy_rows, results, log, seriesVars, findVars>>

FetchNext ==
    \/ FetchTff \/ WriteError \/ BeginMatching \/ MatchInstrument
    \/ SearchUsdInTff \/ FetchLegacy \/ SearchUsdInLegacy \/ WriteOutput

FetchSpec == FetchInit /\ [][FetchNext]_vars

----------------------------------------------------------------------------
(* Properties of the series pipeline *)

\* a < b for two YYYY-MM-DD texts, character by character
TextLess(a, b) ==
    \E k \in 1..Len(a) :
        /\ \A j \in 1..(k - 1) : a[j] = b[j]
        /\ IsDigit(a[k]) /\ IsDigit(b[k]) /\ DigitVal(a[k]) < DigitVal(b[k])

Processed == pc \in {"weekly", "indexed", "built"}

Indexed == pc \in {"indexed", "built"}

\* C1: the deduplicated list has exactly one entry per distinct formatted
\* date of the input, in strictly descending date order, and the entry kept
\* for a date is the first row of the input, in its order before the sort,
\* that has that date.
C1_OnePerDateNewestFirstKeepingFirst ==
    Processed =>
        Bind(<<DateTexts(given), DateTexts(unique)>>, LAMBDA t :
            /\ {t[2][i] : i \in 1..Len(unique)} = {t[1][j] : j \in 1..Len(given)}
            /\ \A i \in 1..(Len(unique) - 1) : TextLess(t[2][i + 1], t[2][i])
            /\ \A i \in 1..Len(unique) :
                  \E j \in 1..Len(given) :
                      /\ given[j] = unique[i]
                      /\ t[1][j] = t[2][i]
                      /\ \A k \in 1..(j - 1) :
                            t[1][k] = t[2][i] => given[k] = given[j])

\* C1 witness: three rows on dates P1 > P2 = P2, the two rows of P2 different;
\* the first row of P2 is kept and the second dropped.
C1_Witness ==
    /\ pc = "weekly"
    /\ Len(given) = 3 /\ Len(unique) = 2
    /\ LET d == DateTexts(given)
       IN  TextLess(d[2], d[1]) /\ d[2] = d[3] /\ given[2] # given[3]
    /\ unique = <<given[1], given[2]>>

\* C2: with D distinct formatted dates in the input the weekly list has
\* min(52, D) entries, and no date left out is newer than a date kept.
C2_WindowOfMostRecent ==
    Processed =>
        Bind(<<{FormatDate(parse_date(given[j])) : j \in 1..Len(given)},
               {weekly[i].date : i \in 1..Len(weekly)}>>, LAMBDA t :
            /\ Len(weekly) = (IF Cardinality(t[1]) < 52 THEN Cardinality(t[1]) ELSE 52)
            /\ Cardinality(t[2]) = Len(weekly)
            /\ t[2] \subseteq t[1]
            /\ \A out \in t[1] \ t[2] : \A kept \in t[2] : TextLess(out, kept))

\* C2 witness: 80 rows on 80 distinct dates give 52 entries.
C2_Witness ==
    /\ pc = "weekly"
    /\ Len(given) = 80
    /\ Cardinality({FormatDate(parse_date(given[j])) : j \in 1..Len(given)}) = 80
    /\ Len(weekly) = 52

\* C3: after add_cot_index every cot_index lies in [0, 100] (0..1000 tenths);
\* an entry at the window minimum has index 0, an entry at the window maximum
\* has index 100 when the maximum differs from the minimum, and when all
\* primary nets are equal every index is 0.
C3_IndexRange ==
    (Indexed /\ weekly # <<>>) =>
        Bind({weekly[i].net_noncomm : i \in 1..Len(weekly)}, LAMBDA nets :
            \A i \in 1..Len(weekly) :
                LET w == weekly[i]
                IN  /\ w.cot_index \in 0..1000
                    /\ (\A n \in nets : w.net_noncomm <= n) => w.cot_index = 0
                    /\ ((\A n \in nets : n <= w.net_noncomm) /\ Cardinality(nets) > 1)
                          => w.cot_index = 1000
                    /\ Cardinality(nets) = 1 => w.cot_index = 0)

\* C3 witness: a window with its minimum at 0, its maximum at 100 and an
\* entry strictly between.
C3_Witness ==
    /\ pc = "indexed"
    /\ \E i, j, k \in 1..Len(weekly) :
          /\ weekly[i].cot_index = 0 /\ weekly[j].cot_index = 1000
          /\ weekly[k].cot_index \in 1..999

\* C4: after add_cot_index every entry has a wow_change; the last (oldest)
\* entry's is 0 and every other entry's is its primary net minus the primary
\* net of the entry after it.
C4_WowChange ==
    Indexed =>
        \A i \in 1..Len(weekly) :
            /\ "wow_change" \in DOMAIN weekly[i]
            /\ i = Len(weekly) => weekly[i].wow_change = 0
            /\ i < Len(weekly) =>
                  weekly[i].wow_change + weekly[i + 1].net_noncomm
                      = weekly[i].net_noncomm

\* C4 witness: a window of several weeks whose newest entry changed.
C4_Witness ==
    /\ pc = "indexed"
    /\ Len(weekly) >= 3
    /\ weekly[1].wow_change > 0 /\ weekly[2].wow_change < 0
    /\ weekly[Len(weekly)].wow_change = 0

\* C5: in a built series latest is the first (newest) week, 52w_high and
\* 52w_low are the greatest and least primary net of the weeks and bound
\* every week's primary net, cot_index is latest's cot_index; two rows with
\* primary nets 1000 (newest) and 200 give latest.cot_index = 100,
\* 52w_high = 1000, 52w_low = 200 and latest.wow_change = 800.
C5_Summary ==
    pc = "built" =>
        Bind({result["weeks"][i].net_noncomm : i \in 1..Len(result["weeks"])},
             LAMBDA nets :
            /\ result["weeks"] = weekly
            /\ result["latest"] = result["weeks"][1]
            /\ \A i \in 2..Len(weekly) : TextLess(weekly[i].date, result["latest"].date)
            /\ result["52w_high"] \in nets /\ result["52w_low"] \in nets
            /\ \A n \in nets : result["52w_low"] <= n /\ n <= result["52w_high"]
            /\ result["cot_index"] = result["latest"].cot_index
            /\ (Len(weekly) = 2 /\ weekly[1].net_noncomm = 1000
                  /\ weekly[2].net_noncomm = 200)
                  => /\ result["latest"].cot_index = 1000
                     /\ result["52w_high"] = 1000 /\ result["52w_low"] = 200
                     /\ result["latest"].wow_change = 800)

\* C5 witness: the series built from two rows with primary nets 1000 (newest)
\* and 200.
C5_Witness ==
    /\ pc = "built"
    /\ Len(result["weeks"]) = 2
    /\ result["weeks"][1].net_noncomm = 1000 /\ result["weeks"][2].net_noncomm = 200

\* a row whose date parses under neither date column
Unparsed(row) ==
    \A k \in 1..Len(DATE_KEYS) :
        ParseDateValue(Strip(Get(row, DATE_KEYS[k], <<>>))) = ValueError

\* C10: a row whose date parses under neither column is kept with the
\* sentinel date, and in the deduplicated list no row with a parsed date
\* stands after such a row.
C10_SentinelIsOldest ==
    Processed =>
        /\ \A j \in 1..Len(given) :
              Unparsed(given[j]) =>
                  /\ parse_date(given[j]) = SENTINEL
                  /\ \E i \in 1..Len(unique) :
                        FormatDate(parse_date(unique[i])) = FormatDate(SENTINEL)
        /\ \A i, j \in 1..Len(unique) :
              (i < j /\ Unparsed(unique[i])) => Unparsed(unique[j])

----------------------------------------------------------------------------
(* find_rows on its own, applied to bounded record collections *)

\* the longest record collection
MaxFindRows == 3

\* a csv row with the given market-code columns and name
MarketRow(code1, code2, name) ==
    LET items == << <<CODE_COLUMNS[1], code1>>, <<CODE_COLUMNS[2], code2>>,
                    <<"Market_and_Exchange_Names", name>> >>
        Has(item) == item[2] # NoColumn
    IN  Dict(SelectSeq(items, Has))

FindPool ==
    { \* the EUR code under the first column name
      MarketRow(TFF_CODES["EUR"], NoColumn,
                <<"E", "U", "R", "O", " ", "F", "X", " ", "-", " ", "C", "M", "E">>),
      \* the EUR code, padded, under the second column name
      MarketRow(NoColumn, <<" ">> \o TFF_CODES["EUR"] \o <<" ", " ">>,
                <<"e", "u", "r", "o", " ", "f", "x">>),
      \* neither code column, a name that holds the EUR fragment in mixed case
      MarketRow(NoColumn, NoColumn,
                <<"M", "i", "c", "r", "o", " ", "E", "u", "r", "o", " ", "F", "x">>),
      \* the GBP code under the first column name, the GBP name
      MarketRow(TFF_CODES["GBP"], <<>>, NAME_MAP["GBP"]),
      \* a blank code and no name column
      MarketRow(<<" ">>, NoColumn, NoColumn) }

FindInit ==
    /\ pc = "find"
    /\ all_rows \in SeqsUpTo(FindPool, MaxFindRows)
    /\ \E c \in {"EUR", "GBP"} : code = TFF_CODES[c] /\ name_search = NAME_MAP[c]
    /\ matched = <<>>
    /\ SeriesIdle /\ FetchIdle

\* matched = find_rows(all_rows, code, name_search)
FindRows ==
    /\ pc = "find"
    /\ matched' = find_rows(all_rows, code, name_search)
    /\ pc' = "found"
    /\ UNCHANGED <<all_rows, code, name_search, seriesVars, fetchVars>>

FindNext == FindRows

FindSpec == FindInit /\ [][FindNext]_vars

\* the text is the code with blanks before and after it
IsPaddedCode(text, c) ==
    \E a \in 0..Len(text) :
        /\ a + Len(c) <= Len(text)
        /\ SubSeq(text, a + 1, a + Len(c)) = c
        /\ \A i \in (1..a) \cup ((a + Len(c) + 1)..Len(text)) : text[i] = " "

\* the same character, or the same letter in the other case
SameLetter(x, y) == x = y \/ \E n \in 1..26 : {x, y} = {Lower[n], Upper[n]}

\* the fragment occurs in the text, letter case ignored
HoldsFragment(text, fragment) ==
    \E a \in 0..(Len(text) - Len(fragment)) :
        \A i \in 1..Len(fragment) : SameLetter(text[a + i], fragment[i])

\* the record has the code c under the given column name
HasCodeOf(r, col, c) == col \in DOMAIN r /\ IsPaddedCode(r[col], c)

\* the record's name holds the fragment
HasNameOf(r, fragment) ==
    /\ "Market_and_Exchange_Names" \in DOMAIN r
    /\ HoldsFragment(r["Market_and_Exchange_Names"], fragment)

HasCode(r, col) == HasCodeOf(r, col, code)

HasName(r) == HasNameOf(r, name_search)

----------------------------------------------------------------------------
(* Properties of fetch_cot_data *)

\* the envelope written to cot_data.json
Envelope == cot_data[Len(cot_data)]

\* the positions in the log of the fetches of a family
FetchesOf(fam) == {i \in DOMAIN log : log[i].op = "fetch" /\ log[i].family = fam}

Fetches == FetchesOf("tff") \cup FetchesOf("legacy")

\* the positions in the log of the searches for instruments
Searches == {i \in DOMAIN log : log[i].op = "search"}

UrlsOf(fam) == IF fam = "tff" THEN TFF_URLS ELSE LEGACY_URLS

\* the place of a locator in the list of its family
Position(e) == CHOOSE k \in 1..Len(UrlsOf(e.family)) : UrlsOf(e.family)[k] = e.url

\* the record is the instrument's by its code under either column name, or
\* by its name
IsOf(r, c, fragment) ==
    \/ HasCodeOf(r, CODE_COLUMNS[1], c)
    \/ HasCodeOf(r, CODE_COLUMNS[2], c)
    \/ HasNameOf(r, fragment)

\* some record of the list is the instrument's
Holds(records, c, fragment) ==
    \E i \in 1..Len(records) : IsOf(records[i], c, fragment)

\* C7: the envelope written carries an error field exactly when every
\* candidate of the TFF family that was fetched yielded zero records; then
\* data is empty and the run has searched for no instrument and fetched no
\* legacy candidate; one envelope is written.
C7_ErrorIffNoTffRecords ==
    pc = "done" =>
        LET nothing == \A i \in FetchesOf("tff") : log[i].rows = 0
        IN  /\ Len(cot_data) = 1
            /\ ("error" \in DOMAIN Envelope) <=> nothing
            /\ nothing => /\ Envelope["data"] = <<>>
                          /\ Searches = {}
                          /\ FetchesOf("legacy") = {}
                          /\ results = <<>>

\* C7 witness: the error envelope is written after one year's first candidate
\* returned an accepted archive without rows and both candidates of the other
\* year failed.
C7_Witness ==
    /\ pc = "done"
    /\ "error" \in DOMAIN Envelope
    /\ Len(log) = 3
    /\ \E i \in FetchesOf("tff") : log[i].accepted

\* C8: with at least one TFF record, the envelope has no error field, and a
\* symbol is a key of data exactly when some record is the instrument's: a
\* TFF record for the seven TFF instruments; for USD a TFF record, or else a
\* legacy record.  Every TFF instrument is searched for, matched or not, and
\* every series of data has at least one week.
C8_KeysAreTheMatchedInstruments ==
    (pc = "done" /\ tff_rows # <<>>) =>
        LET data == Envelope["data"]
        IN  /\ "error" \notin DOMAIN Envelope
            /\ DOMAIN data \subseteq DOMAIN NAME_MAP
            /\ \A k \in 1..Len(TFF_SYMBOLS) :
                  LET symbol == TFF_SYMBOLS[k]
                  IN  /\ symbol \in DOMAIN data
                         <=> Holds(tff_rows, TFF_CODES[symbol], NAME_MAP[symbol])
                      /\ \E i \in Searches : log[i].symbol = symbol
            /\ "USD" \in DOMAIN data
               <=> \/ Holds(tff_rows, USD_CODE, NAME_MAP["USD"])
                   \/ Holds(legacy_rows, USD_CODE, NAME_MAP["USD"])
            /\ \A symbol \in DOMAIN data : data[symbol]["weeks"] # <<>>

\* C8 witness: EUR, GBP and AUD are matched in the TFF records, the other TFF
\* instruments are not, and USD is matched in the legacy records only.
C8_Witness ==
    /\ pc = "done"
    /\ "error" \notin DOMAIN Envelope
    /\ DOMAIN Envelope["data"] = {"EUR", "GBP", "AUD", "USD"}
    /\ ~Holds(tff_rows, USD_CODE, NAME_MAP["USD"])
    /\ legacy_rows # <<>>

\* the response was accepted: status 200 and more than MIN_SIZE bytes
Accepted(e) == e.accepted

\* the response ends the loop over the candidates of its family and year
EndsCandidates(e) ==
    IF e.family = "tff" THEN e.accepted ELSE e.accepted /\ e.rows > 0

\* the candidates of a family and year are fetched in the listed order, none
\* after one that stops; the current year comes before the previous one
InListedOrder(Stops(_)) ==
    \A i \in Fetches :
        LET e       == log[i]
            earlier == {j \in FetchesOf(e.family) : j < i /\ log[j].year = e.year}
        IN  /\ e.year \in {current_year, current_year - 1}
            /\ Cardinality(earlier) = Position(e) - 1
            /\ \A j \in earlier : Position(log[j]) < Position(e) /\ ~Stops(log[j])
            /\ \A j \in FetchesOf(e.family) : j < i => log[j].year >= e.year

\* a candidate that does not stop and is not the last one is followed by the
\* next candidate of the same family and year
NextIsTried(Stops(_)) ==
    \A i \in Fetches :
        LET e == log[i]
        IN  (~Stops(e) /\ Position(e) < Len(UrlsOf(e.family))) =>
                IF i = Len(log)
                THEN /\ pc = (IF e.family = "tff" THEN "fetch_tff" ELSE "fetch_legacy")
                     /\ url_i = Position(e) + 1
                     /\ Years[year_i] = e.year
                ELSE /\ log[i + 1].op = "fetch"
                     /\ log[i + 1].family = e.family
                     /\ log[i + 1].year = e.year
                     /\ Position(log[i + 1]) = Position(e) + 1

\* the run goes on whatever the candidates returned: both years of a family
\* are fetched and the run ends with the envelope written
RunGoesOn ==
    /\ \A fam \in {"tff", "legacy"} :
          (FetchesOf(fam) # {} /\ pc \notin {"fetch_tff", "fetch_legacy"}) =>
              \A y \in {current_year, current_year - 1} :
                  \E i \in FetchesOf(fam) : log[i].year = y /\ Position(log[i]) = 1
    /\ pc # "fetch_tff" => FetchesOf("tff") # {}
    /\ pc = "done" => Len(cot_data) = 1

\* C9 as stated: for each family and each of the two years the candidates
\* are fetched in the listed order, no candidate is fetched after one whose
\* response was accepted, and a candidate whose response was not accepted
\* only makes the next candidate be tried.
C9_StopsAtAccepted ==
    /\ InListedOrder(Accepted)
    /\ NextIsTried(Accepted)
    /\ RunGoesOn

\* C9 amended: for each family and each of the two years the candidates are
\* fetched in the listed order; no TFF candidate is fetched after one whose
\* response was accepted, and no legacy candidate after one whose response
\* was accepted and held at least one record; any other candidate only makes
\* the next candidate be tried, and the run goes on to write the envelope.
C9_StopsAtAcceptedWithRecords ==
    /\ InListedOrder(EndsCandidates)
    /\ NextIsTried(EndsCandidates)
    /\ RunGoesOn

\* C9 witness: a first TFF candidate is accepted and the next fetch is of the
\* other year; a first legacy candidate is accepted without records and the
\* second candidate of that year is fetched next; the envelope is written.
C9_Witness ==
    /\ pc = "done"
    /\ \E i \in FetchesOf("tff") :
          /\ i < Len(log)
          /\ log[i].accepted /\ Position(log[i]) = 1 /\ log[i].rows = 0
          /\ log[i + 1].op = "fetch" /\ log[i + 1].year # log[i].year
    /\ \E i \in FetchesOf("legacy") :
          /\ i < Len(log)
          /\ log[i].accepted /\ log[i].rows = 0 /\ Position(log[i]) = 1
          /\ log[i + 1].op = "fetch" /\ log[i + 1].year = log[i].year
          /\ Position(log[i + 1]) = 2

====
